---- MODULE Spec2Model ----
(***************************************************************************)
(* Memory balloon controller of student-machine (balloon.py): the QMP      *)
(* client, the capacity state, the decision step adjust_memory and the     *)
(* control loop _run_loop, together with the hypervisor (the QMP peer)     *)
(* and the guest agent that writes the telemetry file.                     *)
(*                                                                         *)
(* Sizes are in MB as in the source.  A size in bytes is the record        *)
(* [mb, rem] standing for mb * 1024 * 1024 + rem with 0 <= rem < 2^20, so  *)
(* that byte values of 8 GB and more stay representable.                   *)
(***************************************************************************)
EXTENDS Integers, Sequences, FiniteSets, TLC

\* ------------------------------------------------------------------ bounds
MaxSeq == 1
\* refusals of a valid command, late answers and event messages per run
MaxFaults == 1
\* loop iterations that are counted; later ones count as MaxIter
MaxIter == 7
\* start requests issued for one VM name
MaxStarters == 2

\* ------------------------------------------------------- program constants
max_slots == 16
adjustment_step_mb == 256
MinDimmMb == 256
DimmRoundMb == 1024
LowNum == 3
LowDen == 10
HighNum == 1
HighDen == 2
ReclaimNum == 3
ReclaimDen == 10
VmCheckEvery == 3

NoneMb == -1

\* the configured ceilings, the balloon sizes the hypervisor starts with and
\* the (total_mb, available_mb) pairs the guest agent reports
\* The configurations: the configured ceiling, the balloon size in bytes the
\* hypervisor starts with, and the <<total_mb, available_mb>> pairs the guest
\* agent of that machine reports.  The second machine sees every kind of
\* record next to a tight ceiling; the guest of the last one is a small one
\* under constant memory pressure, so that all 16 DIMM slots get used.  The
\* balloon of the machine with the ceiling of 4096 MB reports a size of 0.
\* The machine with the ceiling of 6000 MB was started with 2048 MB and has
\* got dimm-slot1 of 1024 MB from a controller process that has ended.
ZeroPair == <<0, 0>>
LowPairs == { <<4096, 800>>, <<1000, 100>> }
HighPairs == { <<4096, 2400>> }
NeutralPairs == { <<4096, 2000>>, <<4000, 1200>>, <<4000, 2000>> }
MemPairs == {ZeroPair} \cup LowPairs \cup HighPairs \cup NeutralPairs
InitConfigs ==
    { [ceiling |-> 1024, balloon |-> [mb |-> 2048, rem |-> 0],
       pairs |-> MemPairs, dimms |-> {}, dimmMb |-> 0],
      [ceiling |-> 3300, balloon |-> [mb |-> 2048, rem |-> 4096],
       pairs |-> MemPairs, dimms |-> {}, dimmMb |-> 0],
      [ceiling |-> 8192, balloon |-> [mb |-> 2048, rem |-> 0],
       pairs |-> { <<4096, 800>>, <<4096, 2400>> },
       dimms |-> {}, dimmMb |-> 0],
      [ceiling |-> 20000, balloon |-> [mb |-> 2048, rem |-> 0],
       pairs |-> { ZeroPair, <<1000, 100>> }, dimms |-> {}, dimmMb |-> 0],
      [ceiling |-> 4096, balloon |-> [mb |-> 0, rem |-> 0],
       pairs |-> { <<4096, 2400>> }, dimms |-> {}, dimmMb |-> 0],
      [ceiling |-> 6000, balloon |-> [mb |-> 3072, rem |-> 0],
       pairs |-> { <<1000, 100>> }, dimms |-> {1}, dimmMb |-> 1024] }
MemPairsOf(ceiling) == (CHOOSE c \in InitConfigs : c.ceiling = ceiling).pairs

Max(a, b) == IF a >= b THEN a ELSE b
Min(a, b) == IF a <= b THEN a ELSE b

\* ------------------------------------------------------- byte conversions
\* size_mb * 1024 * 1024
MbToBytes(m) == [mb |-> m, rem |-> 0]
\* current_balloon // (1024 * 1024)
BytesToMb(b) == b.mb
BytesAdd(b, m) == [mb |-> b.mb + m, rem |-> b.rem]
\* `if current_balloon:` -- a byte count of 0 is falsy
Truthy(b) == ~(b.mb = 0 /\ b.rem = 0)

\* ------------------------------------------------- decision step, pure part
\* mutant: the comparison with the last processed id is lost
IsDuplicateNever(seq, last) == FALSE

\* mutant: an older seq_id counts as processed too
IsDuplicateNotNewer(seq, last) == seq <= last

\* seq_id == self._last_processed_seq_id
IsDuplicate(seq, last) == seq = last

\* mutant: a missing size is not noticed
QueryFailedNever(b) == FALSE

\* `if current_balloon is None`
QueryFailed(b) == b.mb = NoneMb

\* mutant: the record is not marked
MarkProcessedNever(seq, last) == last

\* self._last_processed_seq_id = seq_id, before the branches
MarkProcessed(seq, last) == seq

\* mutant: the low threshold itself counts as low
IsLowInclusive(total, avail) == avail * LowDen <= LowNum * total

\* mutant: every record counts as low
IsLowAlways(total, avail) == TRUE

\* free_ratio < low_memory_threshold, free_ratio = available_mb / total_mb.
\* For the integers below 2^21 the float comparison and the integer one
\* agree, as do int(x * 0.50), int(x * 0.30) and the floor divisions.
IsLow(total, avail) == avail * LowDen < LowNum * total
IsHigh(total, avail) == avail * HighDen > HighNum * total

AtCeiling(floor, hot, ceiling) == floor + hot >= ceiling

\* mutant: off by one in the slot limit
SlotsExhaustedLate(slots) == slots > max_slots

SlotsExhausted(slots) == slots >= max_slots

\* max(int(total_mb * 0.50), step) rounded up to the next multiple of 1024
DesiredIncrease(total) ==
    LET d == Max(total \div 2, adjustment_step_mb)
    IN  ((d + (DimmRoundMb - 1)) \div DimmRoundMb) * DimmRoundMb

\* mutant: the increase is not clamped to the headroom
ActualIncreaseUnclamped(total, floor, hot, ceiling) == DesiredIncrease(total)

\* min(desired_increase, ceiling_mb - total_possible_mb)
ActualIncrease(total, floor, hot, ceiling) ==
    Min(DesiredIncrease(total), ceiling - (floor + hot))

\* mutant: the minimum DIMM size is not enforced
TooSmallNever(inc) == inc <= 0

TooSmall(inc) == inc < MinDimmMb

AtFloor(cur, floor) == cur <= floor

\* mutant: the floor follows the balloon size
FloorAfterQueryAlways(floor, cur) == cur

\* `if self._initial_balloon_mb is None: self._initial_balloon_mb = current_mb`
FloorAfterQuery(floor, cur) == IF floor = NoneMb THEN cur ELSE floor

\* mutant: the target is not kept at or above the floor
NewSizeMbUnclamped(cur, floor) ==
    cur - Max((cur * ReclaimNum) \div ReclaimDen, adjustment_step_mb)

\* mutant: the decrease is always one step
NewSizeMbStepOnly(cur, floor) == Max(cur - adjustment_step_mb, floor)

\* max(current_mb - max(int(current_mb * 0.30), step), floor_mb)
NewSizeMb(cur, floor) ==
    Max(cur - Max((cur * ReclaimNum) \div ReclaimDen, adjustment_step_mb), floor)

\* ------------------------------------------------------------------- state
VARIABLES
    pc,                     \* position of the controller process
    max_memory_mb,          \* ceiling_mb
    last_processed_seq_id,  \* self._last_processed_seq_id
    initial_balloon_mb,     \* self._initial_balloon_mb (floor_mb), NoneMb = None
    hotplug_slot_counter,   \* self._hotplug_slot_counter
    total_hotplugged_mb,    \* self._total_hotplugged_mb
    vm_check_counter,       \* local of _run_loop
    sock,                   \* QMPClient.sock: "none" or "open"
    loc,                    \* locals of the adjust_memory call in progress
    sent,                   \* commands sent by the current / last adjust_memory
    got,                    \* what _recv gave for each of them
    ret,                    \* its return value: "none", "true", "false"
    branch,                 \* the exit it took
    pre,                    \* capacity state when it was called
    inbox,                  \* bytes of the hypervisor not yet read, as messages
    hvBalloon,              \* hypervisor: balloon `actual`, in bytes
    hvBackends,             \* hypervisor: unattached memory backends, [slot, mb]
    hvDimms,                \* hypervisor: slots of the attached pc-dimm devices
    hvDimmMb,               \* hypervisor: total size of the attached DIMMs
    hvEventDue,             \* hypervisor: an event message is still to come
    hvAlive,                \* the QEMU process exists
    faults,                 \* refusals, late answers and events so far
    run_once,               \* parameter of _run_loop
    marker,                 \* the PID marker file: "absent" or its content
    hs,                     \* what QMPClient.connect did and saw
    polled,                 \* a command other than qmp_capabilities was sent
    iterations,             \* iterations of the loop begun, up to MaxIter
    sinceDeath,             \* calls of adjust_memory begun after QEMU ended
    ended,                  \* how _run_loop ended
    starter,                \* start requests: position of each
    child,                  \* start requests: state of the process each forked
    owner,                  \* start requests: the user of each
    kind,                   \* start requests: "run" or "cmd", see below
    seen,                   \* start requests: what each read from the marker
    script,                 \* _recv: bytes the peer has still to write
    wire,                   \* _recv: bytes written by the peer and not yet read
    data,                   \* _recv: the local `data`
    recvRet,                \* _recv: "none" while it runs, then its outcome
    peerOpen,               \* _recv: the peer has not closed the connection
    regime                  \* the records the guest reports: "any", "high", "low"

ctlVars == << pc, max_memory_mb, last_processed_seq_id, initial_balloon_mb,
              hotplug_slot_counter, total_hotplugged_mb, vm_check_counter,
              sock, loc >>
histVars == << sent, got, ret, branch, pre >>
hvVars == << inbox, hvBalloon, hvBackends, hvDimms, hvDimmMb, hvEventDue,
            hvAlive, faults >>
startVars == << starter, child, owner, kind, seen >>
launchVars == << run_once, marker, startVars >>
loopVars == << hs, polled, iterations, sinceDeath, ended >>
recvVars == << script, wire, data, recvRet, peerOpen >>
restVars == << recvVars, regime >>
mainVars == << ctlVars, histVars, hvVars, run_once, loopVars, restVars >>
vars == << ctlVars, histVars, hvVars, launchVars, loopVars, restVars >>

\* ---------------------------------------------------------------- messages
NoActual == [mb |-> NoneMb, rem |-> 0]
\* {"return": {"actual": b}}, {"return": {}}, {"error": ...}, {"event": ...}
RetActual(b) == [k |-> "return", actual |-> b]
RetEmpty == [k |-> "return", actual |-> NoActual]
ErrMsg == [k |-> "error", actual |-> NoActual]
EventMsg == [k |-> "event", actual |-> NoActual]
\* {"QMP": {"version": ..., "capabilities": ...}}
GreetingMsg == [k |-> "greeting", actual |-> NoActual]
\* what _recv gives when the peer has closed, and a raised exception
EmptyObj == [k |-> "empty", actual |-> NoActual]
Raised == [k |-> "raise", actual |-> NoActual]

Cmd(e, slot, mb, value) == [execute |-> e, slot |-> slot, mb |-> mb, value |-> value]
CapabilitiesCmd == Cmd("qmp_capabilities", 0, 0, NoActual)
QueryBalloonCmd == Cmd("query-balloon", 0, 0, NoActual)
BalloonCmd(b) == Cmd("balloon", 0, 0, b)
ObjectAddCmd(slot, mb) == Cmd("object-add", slot, mb, MbToBytes(mb))
DeviceAddCmd(slot) == Cmd("device_add", slot, 0, NoActual)

\* --------------------------------------------------------------- hypervisor
HvSame(m) == [msg |-> m, bal |-> hvBalloon, be |-> hvBackends, di |-> hvDimms,
              dmb |-> hvDimmMb, ev |-> hvEventDue, f |-> faults]
HvRefuse == [HvSame(ErrMsg) EXCEPT !.f = faults + 1]

BackendSlots == { b.slot : b \in hvBackends }
BackendMb(slot) == (CHOOSE b \in hvBackends : b.slot = slot).mb

\* The peer's answers to a command: it may refuse a valid command; it always
\* refuses an object-add whose id exists and a device_add without backend.
HvHandle(cmd) ==
    ( IF faults < MaxFaults THEN {HvRefuse} ELSE {} ) \cup
    ( IF cmd.execute = "qmp_capabilities" THEN {HvSame(RetEmpty)}
      ELSE IF cmd.execute = "query-balloon" THEN {HvSame(RetActual(hvBalloon))}
      ELSE IF cmd.execute = "balloon" THEN
          {[HvSame(RetEmpty) EXCEPT !.bal = cmd.value, !.ev = TRUE]}
      ELSE IF cmd.execute = "object-add" THEN
          IF cmd.slot \in BackendSlots \cup hvDimms THEN {HvSame(ErrMsg)}
          ELSE {[HvSame(RetEmpty) EXCEPT
                   !.be = hvBackends \cup {[slot |-> cmd.slot, mb |-> cmd.mb]}]}
      ELSE IF cmd.execute = "device_add" THEN
          IF cmd.slot \notin BackendSlots THEN {HvSame(ErrMsg)}
          ELSE {[HvSame(RetEmpty) EXCEPT
                   !.bal = BytesAdd(hvBalloon, BackendMb(cmd.slot)),
                   !.be = { b \in hvBackends : b.slot # cmd.slot },
                   !.di = hvDimms \cup {cmd.slot},
                   !.dmb = hvDimmMb + BackendMb(cmd.slot)]}
      ELSE {} )

\* ------------------------------------------------- QMPClient._send / _recv
Out(res, q, h, alive) ==
    [res |-> res, inbox |-> q, bal |-> h.bal, be |-> h.be, di |-> h.di,
     dmb |-> h.dmb, ev |-> h.ev, alive |-> alive, f |-> h.f]

\* One _send followed by one _recv.  _send raises when there is no socket or
\* the peer is gone.  Otherwise the peer handles the command and queues its
\* answer behind whatever is still unread.  _recv returns the first unread
\* message when its first chunk holds exactly that one; it raises
\* socket.timeout after reading several messages into one buffer (json.loads
\* rejects them) and when the answer is late (nothing to read for 5 s, the
\* answer stays unread); it returns {} when the peer closes instead of
\* answering.
Exchange(cmd) ==
    IF sock = "none" \/ ~hvAlive THEN {Out(Raised, inbox, HvSame(ErrMsg), hvAlive)}
    ELSE
        UNION { LET q == Append(inbox, h.msg) IN
                  {Out(Head(q), Tail(q), h, TRUE)}
                  \cup { Out(Raised, SubSeq(q, k + 1, Len(q)), h, TRUE) :
                           k \in 2..Len(q) }
                  \cup ( IF inbox = << >> /\ h.f < MaxFaults
                         THEN {Out(Raised, q, [h EXCEPT !.f = h.f + 1], TRUE)}
                         ELSE {} )
              : h \in HvHandle(cmd) }
        \cup
        { IF Len(inbox) = 1
          THEN Out(Head(inbox), << >>, HvSame(ErrMsg), FALSE)
          ELSE Out(EmptyObj, << >>, HvSame(ErrMsg), FALSE) }

\* One _recv with nothing sent before it (the greeting): the first unread
\* message, socket.timeout when it is late, {} when the peer has closed.
Receive ==
    IF sock = "none" THEN {Out(Raised, inbox, HvSame(ErrMsg), hvAlive)}
    ELSE IF ~hvAlive
    THEN { IF inbox # << >>
           THEN Out(Head(inbox), Tail(inbox), HvSame(ErrMsg), FALSE)
           ELSE Out(EmptyObj, << >>, HvSame(ErrMsg), FALSE) }
    ELSE ( IF inbox # << >>
           THEN {Out(Head(inbox), Tail(inbox), HvSame(ErrMsg), TRUE)}
           ELSE {} )
         \cup ( IF faults < MaxFaults
                THEN {Out(Raised, inbox, HvRefuse, TRUE)}
                ELSE {} )
         \cup {Out(EmptyObj, << >>, HvSame(ErrMsg), FALSE)}

\* mutant: the response to qmp_capabilities is not looked at
ConnectOkAny(res) == TRUE

\* connect: "return" in response
ConnectOk(res) == res.k = "return"

\* query_balloon: the byte count, or NoActual for None
QueryResult(res) == IF res.k = "return" THEN res.actual ELSE NoActual
\* set_balloon: "return" in response
SetBalloonResult(res) == res.k = "return"
\* hotplug_memory: a step fails when it raised or "error" in response
HotplugStepFailed(res) == res.k = "raise" \/ res.k = "error"

\* ---------------------------------------------------------------- initial
NoLoc == [seq |-> 0, total |-> 0, avail |-> 0, current_mb |-> 0, inc |-> 0,
          new |-> 0]
NoPre == [floor |-> NoneMb, hot |-> 0, slots |-> 0, last |-> 0]
NoFile == [kind |-> "missing", seq |-> 0, total |-> 0, avail |-> 0]
NoHandshake == [opened |-> FALSE, greeting |-> "none", capsSent |-> FALSE,
                capsResp |-> "none"]

\* what get_vm_memory_status can find in the shared directory: no file, a
\* file caught in the middle of a write, a JSON value that is no object (the
\* file can be written from within the guest), an object whose total_mb is
\* no number, or a record of the guest agent
StatusFiles ==
    { [NoFile EXCEPT !.kind = k] : k \in {"missing", "unparsable", "nondict"} }
    \cup { [NoFile EXCEPT !.kind = "badfields", !.seq = s] : s \in 0..MaxSeq }
    \cup { [kind |-> "record", seq |-> s, total |-> m[1], avail |-> m[2]] :
             s \in 0..MaxSeq, m \in MemPairsOf(max_memory_mb) }

\* the status files the guest produces under a regime: any of the above, or
\* new records only (a seq_id other than the last processed one), all of
\* them with a free ratio above the high or below the low threshold
StatusFilesIn(r) ==
    IF r = "any" THEN StatusFiles
    ELSE { f \in StatusFiles :
             /\ f.kind = "record"
             /\ f.seq # last_processed_seq_id
             /\ << f.total, f.avail >> \in
                   (IF r = "high" THEN HighPairs ELSE LowPairs) }

\* no start request is under way
StartIdle ==
    /\ starter = << >>
    /\ child = << >>
    /\ owner = << >>
    /\ kind = << >>
    /\ seen = << >>

\* no call of _recv is followed byte by byte
RecvIdle ==
    /\ script = << >>
    /\ wire = << >>
    /\ data = << >>
    /\ recvRet = "none"
    /\ peerOpen = TRUE

\* a new QMPClient and a new MemoryBalloonController next to a running VM
FreshState ==
    /\ \E c \in InitConfigs :
         /\ max_memory_mb = c.ceiling
         /\ hvBalloon = c.balloon
         /\ hvDimms = c.dimms
         /\ hvDimmMb = c.dimmMb
    /\ last_processed_seq_id = 0
    /\ initial_balloon_mb = NoneMb
    /\ hotplug_slot_counter = 0
    /\ total_hotplugged_mb = 0
    /\ vm_check_counter = 0
    /\ sock = "none"
    /\ loc = NoLoc
    /\ sent = << >>
    /\ got = << >>
    /\ ret = "none"
    /\ branch = "none"
    /\ pre = NoPre
    /\ inbox = << >>
    /\ hvBackends = {}
    /\ hvEventDue = FALSE
    /\ hvAlive = TRUE
    /\ faults = 0
    /\ hs = NoHandshake
    /\ polled = FALSE
    /\ iterations = 0
    /\ sinceDeath = 0
    /\ ended = "none"

\* the controller before _run_loop is entered
ControllerInit ==
    /\ pc = "start"
    /\ FreshState

Init ==
    /\ ControllerInit
    /\ regime = "any"
    /\ run_once \in BOOLEAN
    /\ marker = "own"
    /\ StartIdle
    /\ RecvIdle

\* the memory of the controller process after its end
ProcessGone ==
    /\ last_processed_seq_id' = 0
    /\ initial_balloon_mb' = NoneMb
    /\ hotplug_slot_counter' = 0
    /\ total_hotplugged_mb' = 0
    /\ vm_check_counter' = 0
    /\ loc' = NoLoc
    /\ sent' = << >>
    /\ got' = << >>
    /\ ret' = "none"
    /\ branch' = "none"
    /\ pre' = NoPre

ApplyOut(o) ==
    /\ inbox' = o.inbox
    /\ hvBalloon' = o.bal
    /\ hvBackends' = o.be
    /\ hvDimms' = o.di
    /\ hvDimmMb' = o.dmb
    /\ hvEventDue' = o.ev
    /\ hvAlive' = o.alive
    /\ faults' = o.f

\* the command reaches the wire unless _send raises
OnWire(cmd) == IF sock = "open" /\ hvAlive THEN << cmd >> ELSE << >>
\* some command other than qmp_capabilities has reached the wire
Polled(cmd) == polled \/ OnWire(cmd) # << >>

\* ------------------------------------------------------------ control loop
\* _run_loop has left connect behind without reaching the loop
ConnectFailed ==
    /\ pc' = "done"
    /\ ended' = "connect_failed"

\* QMPClient.connect, socket.connect: the hypervisor queues its greeting
ConnectOpen ==
    /\ pc = "start"
    /\ sock' = "open"
    /\ IF hvAlive
       THEN /\ inbox' = Append(inbox, GreetingMsg)
            /\ hs' = [hs EXCEPT !.opened = TRUE]
            /\ pc' = "greeting"
            /\ UNCHANGED ended
       ELSE /\ ConnectFailed
            /\ UNCHANGED << inbox, hs >>
    /\ UNCHANGED << restVars,
                    max_memory_mb, last_processed_seq_id, initial_balloon_mb,
                    hotplug_slot_counter, total_hotplugged_mb,
                    vm_check_counter, loc, histVars, hvBalloon, hvBackends,
                    hvDimms, hvDimmMb, hvEventDue, hvAlive, faults,
                    launchVars, polled, iterations, sinceDeath >>

\* QMPClient.connect, the _recv of the greeting; its value is not looked at
ConnectGreeting ==
    /\ pc = "greeting"
    /\ \E o \in Receive :
         /\ ApplyOut(o)
         /\ hs' = [hs EXCEPT !.greeting = o.res.k]
         /\ IF o.res = Raised
            THEN ConnectFailed
            ELSE pc' = "capabilities" /\ UNCHANGED ended
    /\ UNCHANGED << restVars,
                    max_memory_mb, last_processed_seq_id, initial_balloon_mb,
                    hotplug_slot_counter, total_hotplugged_mb,
                    vm_check_counter, sock, loc, histVars, launchVars,
                    polled, iterations, sinceDeath >>

\* QMPClient.connect, qmp_capabilities and its response
ConnectCapabilities ==
    /\ pc = "capabilities"
    /\ \E o \in Exchange(CapabilitiesCmd) :
         /\ ApplyOut(o)
         /\ hs' = [hs EXCEPT !.capsSent = (OnWire(CapabilitiesCmd) # << >>),
                             !.capsResp = o.res.k]
         /\ IF ConnectOk(o.res)
            THEN pc' = "init_query" /\ UNCHANGED ended
            ELSE ConnectFailed
    /\ UNCHANGED << restVars,
                    max_memory_mb, last_processed_seq_id, initial_balloon_mb,
                    hotplug_slot_counter, total_hotplugged_mb,
                    vm_check_counter, sock, loc, histVars, launchVars,
                    polled, iterations, sinceDeath >>

\* the balloon query after connect: `if current_balloon:` captures the floor
InitialQuery ==
    /\ pc = "init_query"
    /\ \E o \in Exchange(QueryBalloonCmd) :
         LET b == QueryResult(o.res) IN
         /\ ApplyOut(o)
         /\ initial_balloon_mb' =
               IF b # NoActual /\ Truthy(b) THEN BytesToMb(b) ELSE initial_balloon_mb
    /\ polled' = Polled(QueryBalloonCmd)
    /\ pc' = "loop"
    /\ UNCHANGED << restVars,
                    max_memory_mb, last_processed_seq_id, hotplug_slot_counter,
                    total_hotplugged_mb, vm_check_counter, sock, loc,
                    histVars, launchVars, hs, iterations, sinceDeath, ended >>

\* mutant: the probe comes one iteration late
ProbeDueLate(c) == c > VmCheckEvery

\* `if vm_check_counter >= 3`
ProbeDue(c) == c >= VmCheckEvery

\* `while self._running:` with the liveness probe on every third iteration;
\* _running is True from before the loop and nothing sets it to False
LoopCheck ==
    /\ pc = "loop"
    /\ iterations' = Min(iterations + 1, MaxIter)
    /\ LET c == vm_check_counter + 1 IN
         IF ProbeDue(c)
         THEN /\ vm_check_counter' = 0
              /\ IF hvAlive
                 THEN pc' = "adjust" /\ UNCHANGED ended
                 ELSE pc' = "cleanup" /\ ended' = "vm_stopped"
         ELSE /\ vm_check_counter' = c
              /\ pc' = "adjust"
              /\ UNCHANGED ended
    /\ UNCHANGED << restVars,
                    max_memory_mb, last_processed_seq_id, initial_balloon_mb,
                    hotplug_slot_counter, total_hotplugged_mb, sock, loc,
                    histVars, hvVars, launchVars, hs, polled, sinceDeath >>

\* the finally block of _run_loop: QMPClient.disconnect and the unlink of the
\* PID marker if it exists
Cleanup ==
    /\ pc = "cleanup"
    /\ sock' = "none"
    /\ marker' = "absent"
    /\ pc' = "done"
    /\ UNCHANGED << restVars,
                    max_memory_mb, last_processed_seq_id, initial_balloon_mb,
                    hotplug_slot_counter, total_hotplugged_mb,
                    vm_check_counter, loc, histVars, hvVars, run_once,
                    startVars, loopVars >>

\* ------------------------------------------------------------ adjust_memory
\* adjust_memory has returned: `if run_once: break`, else the next iteration
Return ==
    /\ pc' = IF run_once THEN "cleanup" ELSE "loop"
    /\ ended' = IF run_once THEN "run_once" ELSE ended

\* adjust_memory returns r through exit b without touching the capacity state
ReturnEarly(r, b) ==
    /\ ret' = r
    /\ branch' = b
    /\ Return
    /\ UNCHANGED << last_processed_seq_id, initial_balloon_mb,
                    hotplug_slot_counter, total_hotplugged_mb >>

\* adjust_memory from its first line to its return or to the first
\* balloon / hotplug command
AdjustMemory ==
    /\ pc = "adjust"
    /\ pre' = [floor |-> initial_balloon_mb, hot |-> total_hotplugged_mb,
                slots |-> hotplug_slot_counter, last |-> last_processed_seq_id]
    /\ sinceDeath' = IF hvAlive THEN sinceDeath ELSE sinceDeath + 1
    /\ UNCHANGED << restVars,
                    max_memory_mb, vm_check_counter, sock, launchVars, hs,
                    iterations >>
    /\ \E statusFile \in StatusFilesIn(regime) :
       IF \/ statusFile.kind = "nondict"
          \/ /\ statusFile.kind = "badfields"
             /\ ~IsDuplicate(statusFile.seq, last_processed_seq_id)
       THEN \* vm_status.get or available_mb / total_mb raises, the
            \* exception leaves the loop
            /\ ret' = "raise"
            /\ branch' = "raised"
            /\ pc' = "cleanup"
            /\ ended' = "exception"
            /\ sent' = << >>
            /\ got' = << >>
            /\ loc' = NoLoc
            /\ UNCHANGED << last_processed_seq_id, initial_balloon_mb,
                            hotplug_slot_counter, total_hotplugged_mb,
                            hvVars, polled >>
       ELSE IF statusFile.kind \notin {"record", "badfields"}
       THEN /\ ReturnEarly("false", "nostatus")
            /\ sent' = << >>
            /\ got' = << >>
            /\ loc' = NoLoc
            /\ UNCHANGED << hvVars, polled >>
       ELSE
       LET seq == statusFile.seq
           total_mb == statusFile.total
           available_mb == statusFile.avail
           rec == [NoLoc EXCEPT !.seq = seq, !.total = total_mb,
                                !.avail = available_mb]
       IN
       IF IsDuplicate(seq, last_processed_seq_id)
       THEN /\ ReturnEarly("true", "skip")
            /\ sent' = << >>
            /\ got' = << >>
            /\ loc' = rec
            /\ UNCHANGED << hvVars, polled >>
       ELSE IF total_mb = 0
       THEN /\ ReturnEarly("false", "zero")
            /\ sent' = << >>
            /\ got' = << >>
            /\ loc' = rec
            /\ UNCHANGED << hvVars, polled >>
       ELSE
       \E o \in Exchange(QueryBalloonCmd) :
         LET current_balloon == QueryResult(o.res)
             current_mb == BytesToMb(current_balloon)
             floor_mb == FloorAfterQuery(initial_balloon_mb, current_mb)
             ceiling_mb == max_memory_mb
             inc == ActualIncrease(total_mb, floor_mb, total_hotplugged_mb,
                                   ceiling_mb)
             new_size_mb == NewSizeMb(current_mb, floor_mb)
             here == [rec EXCEPT !.current_mb = current_mb]
             Done(r, b) ==
                 /\ ret' = r
                 /\ branch' = b
                 /\ Return
                 /\ loc' = here
                 /\ UNCHANGED << hotplug_slot_counter, total_hotplugged_mb >>
         IN
         /\ ApplyOut(o)
         /\ sent' = OnWire(QueryBalloonCmd)
         /\ got' = << o.res >>
         /\ polled' = Polled(QueryBalloonCmd)
         /\ IF QueryFailed(current_balloon)
            THEN /\ ReturnEarly("false", "queryfail")
                 /\ loc' = rec
            ELSE
            /\ initial_balloon_mb' = floor_mb
            /\ last_processed_seq_id' = MarkProcessed(seq, last_processed_seq_id)
            /\ IF IsLow(total_mb, available_mb)
               THEN IF AtCeiling(floor_mb, total_hotplugged_mb, ceiling_mb)
                    THEN Done("true", "low_ceiling")
                    ELSE IF SlotsExhausted(hotplug_slot_counter)
                    THEN Done("true", "low_slots")
                    ELSE IF TooSmall(inc)
                    THEN Done("true", "low_small")
                    ELSE /\ hotplug_slot_counter' = hotplug_slot_counter + 1
                         /\ loc' = [here EXCEPT !.inc = inc]
                         /\ pc' = "hp_objadd"
                         /\ ret' = "none"
                         /\ branch' = "low_hotplug"
                         /\ UNCHANGED << total_hotplugged_mb, ended >>
               ELSE IF IsHigh(total_mb, available_mb)
               THEN IF AtFloor(current_mb, floor_mb)
                    THEN Done("true", "high_floor")
                    ELSE IF new_size_mb < current_mb
                    THEN /\ loc' = [here EXCEPT !.new = new_size_mb]
                         /\ pc' = "balloon_set"
                         /\ ret' = "none"
                         /\ branch' = "high_set"
                         /\ UNCHANGED << hotplug_slot_counter,
                                         total_hotplugged_mb, ended >>
                    ELSE Done("true", "high_same")
               ELSE Done("true", "neutral")

\* mutant: the optimistic slot reservation is kept on failure
HotplugFailedNoRevert ==
    /\ hotplug_slot_counter' = hotplug_slot_counter
    /\ ret' = "false"
    /\ branch' = "low_hotplug_failed"
    /\ Return
    /\ UNCHANGED total_hotplugged_mb

\* the revert of the optimistic slot reservation when hotplug_memory fails
HotplugFailed ==
    /\ hotplug_slot_counter' = hotplug_slot_counter - 1
    /\ ret' = "false"
    /\ branch' = "low_hotplug_failed"
    /\ Return
    /\ UNCHANGED total_hotplugged_mb

\* hotplug_memory, first step: object-add of mem-slot<N>
HotplugObjectAdd ==
    /\ pc = "hp_objadd"
    /\ LET cmd == ObjectAddCmd(hotplug_slot_counter, loc.inc) IN
       \E o \in Exchange(cmd) :
         /\ ApplyOut(o)
         /\ sent' = sent \o OnWire(cmd)
         /\ got' = Append(got, o.res)
         /\ polled' = Polled(cmd)
         /\ IF HotplugStepFailed(o.res)
            THEN HotplugFailed
            ELSE /\ pc' = "hp_devadd"
                 /\ UNCHANGED << hotplug_slot_counter, total_hotplugged_mb,
                                 ret, branch, ended >>
    /\ UNCHANGED << restVars,
                    max_memory_mb, last_processed_seq_id, initial_balloon_mb,
                    vm_check_counter, sock, loc, pre, launchVars, hs,
                    iterations, sinceDeath >>

\* hotplug_memory, second step: device_add of dimm-slot<N>, then the
\* bookkeeping of adjust_memory
HotplugDeviceAdd ==
    /\ pc = "hp_devadd"
    /\ LET cmd == DeviceAddCmd(hotplug_slot_counter) IN
       \E o \in Exchange(cmd) :
         /\ ApplyOut(o)
         /\ sent' = sent \o OnWire(cmd)
         /\ got' = Append(got, o.res)
         /\ polled' = Polled(cmd)
         /\ IF HotplugStepFailed(o.res)
            THEN HotplugFailed
            ELSE /\ total_hotplugged_mb' = total_hotplugged_mb + loc.inc
                 /\ ret' = "true"
                 /\ branch' = "low_hotplug_ok"
                 /\ Return
                 /\ UNCHANGED hotplug_slot_counter
    /\ UNCHANGED << restVars,
                    max_memory_mb, last_processed_seq_id, initial_balloon_mb,
                    vm_check_counter, sock, loc, pre, launchVars, hs,
                    iterations, sinceDeath >>

\* the balloon resize of the high-memory branch
SetBalloon ==
    /\ pc = "balloon_set"
    /\ LET cmd == BalloonCmd(MbToBytes(loc.new)) IN
       \E o \in Exchange(cmd) :
         /\ ApplyOut(o)
         /\ sent' = sent \o OnWire(cmd)
         /\ got' = Append(got, o.res)
         /\ polled' = Polled(cmd)
         /\ ret' = IF SetBalloonResult(o.res) THEN "true" ELSE "false"
    /\ Return
    /\ UNCHANGED << restVars,
                    max_memory_mb, last_processed_seq_id, initial_balloon_mb,
                    hotplug_slot_counter, total_hotplugged_mb,
                    vm_check_counter, sock, loc, branch, pre, launchVars, hs,
                    iterations, sinceDeath >>

\* ------------------------------------------------------- process and signals
\* the positions inside the try block of _run_loop
InTry == {"loop", "adjust", "hp_objadd", "hp_devadd", "balloon_set"}
\* the positions of _run_loop before its try block
BeforeTry == {"start", "greeting", "capabilities", "init_query"}

\* SIGINT: KeyboardInterrupt is raised where the process is and unwinds the
\* call of adjust_memory in progress; inside the try block the finally block
\* runs next, before the try block _run_loop is left at once
Interrupt ==
    /\ pc \in InTry \cup BeforeTry
    /\ pc' = IF pc \in InTry THEN "cleanup" ELSE "done"
    /\ ended' = IF pc \in InTry THEN "interrupt" ELSE "interrupt_early"
    /\ loc' = NoLoc
    /\ sent' = << >>
    /\ got' = << >>
    /\ ret' = "none"
    /\ branch' = "none"
    /\ pre' = NoPre
    /\ UNCHANGED << restVars,
                    max_memory_mb, last_processed_seq_id, initial_balloon_mb,
                    hotplug_slot_counter, total_hotplugged_mb,
                    vm_check_counter, sock, hvVars, launchVars, hs, polled,
                    iterations, sinceDeath >>

\* SIGTERM: no handler is installed, the process ends where it is
Terminate ==
    /\ pc \in InTry \cup BeforeTry \cup {"cleanup", "done"}
    /\ pc' = "killed"
    /\ ended' = IF pc \in InTry THEN "killed_polling"
                ELSE IF pc = "done" THEN ended ELSE "killed"
    /\ ProcessGone
    /\ UNCHANGED << restVars,
                    max_memory_mb, sock, hvVars, launchVars, hs, polled,
                    iterations, sinceDeath >>

\* start_balloon_controller, the child after _run_loop: the finally block
\* unlinks the PID marker if it exists, then the process exits
ChildExit ==
    /\ pc = "done"
    /\ marker' = "absent"
    /\ pc' = "exited"
    /\ ProcessGone
    /\ UNCHANGED << restVars,
                    max_memory_mb, sock, hvVars, run_once, startVars,
                    loopVars >>

\* -------------------------------------------------------------- environment
\* the hypervisor emits an asynchronous event message on the monitor
HvEvent ==
    /\ hvEventDue /\ hvAlive /\ sock = "open"
    /\ faults < MaxFaults
    /\ faults' = faults + 1
    /\ inbox' = Append(inbox, EventMsg)
    /\ hvEventDue' = FALSE
    /\ UNCHANGED << ctlVars, histVars, hvBalloon, hvBackends, hvDimms,
                    hvDimmMb, hvAlive, launchVars, loopVars, restVars >>

\* the QEMU process ends
VmDies ==
    /\ hvAlive
    /\ hvAlive' = FALSE
    /\ UNCHANGED << ctlVars, histVars, inbox, hvBalloon, hvBackends,
                    hvDimms, hvDimmMb, hvEventDue, faults, launchVars,
                    loopVars, restVars >>

Next ==
    \/ ConnectOpen
    \/ ConnectGreeting
    \/ ConnectCapabilities
    \/ InitialQuery
    \/ LoopCheck
    \/ AdjustMemory
    \/ HotplugObjectAdd
    \/ HotplugDeviceAdd
    \/ SetBalloon
    \/ Cleanup
    \/ Interrupt
    \/ Terminate
    \/ ChildExit
    \/ HvEvent
    \/ VmDies

Spec == Init /\ [][Next]_vars

\* ===================================================== persistent regimes
\* The controller runs on, no signal arrives, and the guest reports new
\* records of one kind only: low ones, or high ones, or low ones up to some
\* moment and high ones from then on.  Every step of the process ends (the
\* socket has a timeout, the sleep is finite), hence the weak fairness of
\* its steps.
LiveCeilings == {3300, 8192, 20000}

\* the guest of this configuration can report records of regime r
HasRecords(r) == \E f \in StatusFilesIn(r) : TRUE

LiveInit ==
    /\ ControllerInit
    /\ max_memory_mb \in LiveCeilings
    /\ regime \in {"low", "high"}
    /\ HasRecords(regime)
    /\ run_once = FALSE
    /\ marker = "own"
    /\ StartIdle
    /\ RecvIdle

\* from now on the guest reports only high records
Settle ==
    /\ regime = "low" /\ pc = "loop"
    /\ regime' = "high"
    /\ HasRecords("high")
    /\ UNCHANGED << ctlVars, histVars, hvVars, launchVars, loopVars,
                    recvVars >>

ControllerStep ==
    \/ ConnectOpen
    \/ ConnectGreeting
    \/ ConnectCapabilities
    \/ InitialQuery
    \/ LoopCheck
    \/ AdjustMemory
    \/ HotplugObjectAdd
    \/ HotplugDeviceAdd
    \/ SetBalloon
    \/ Cleanup
    \/ ChildExit

LiveNext ==
    \/ ControllerStep
    \/ HvEvent
    \/ Settle

LiveSpec == LiveInit /\ [][LiveNext]_vars /\ WF_vars(ControllerStep)

\* ======================================================= the QMP client
\* The methods of QMPClient called in any order by a caller that holds the
\* client: `branch` is the method called last, `ret` what it returned,
\* `sent` and `got` what it sent and read.  hotplug_memory takes two steps,
\* one for each command.
clientFrame == << restVars,
                  max_memory_mb, last_processed_seq_id, initial_balloon_mb,
                  hotplug_slot_counter, total_hotplugged_mb,
                  vm_check_counter, loc, pre, launchVars, loopVars >>
\* the arguments the caller passes
ApiBalloonMb == {1024, 2048}
ApiSlots == {1, 2}
ApiDimmMb == {1024}

ClientInit ==
    /\ pc = "api"
    /\ FreshState
    /\ regime = "any"
    /\ run_once = FALSE
    /\ marker = "absent"
    /\ StartIdle
    /\ RecvIdle

\* mutant: the socket is kept when close() raises
SockAfterDisconnectLeaky(closeRaised) == IF closeRaised THEN "open" ELSE "none"

\* disconnect: close() inside try / bare except, then self.sock = None
SockAfterDisconnect(closeRaised) == "none"

\* QMPClient.connect as one step: a new socket object replaces the old one
\* before anything can fail
ApiConnect ==
    /\ pc = "api"
    /\ sock' = "open"
    /\ \E ok \in BOOLEAN :
         /\ ok => hvAlive
         /\ ret' = IF ok THEN "true" ELSE "false"
    /\ inbox' = << >>
    /\ sent' = OnWire(CapabilitiesCmd)
    /\ got' = << >>
    /\ branch' = "connect"
    /\ UNCHANGED << pc, hvBalloon, hvBackends, hvDimms, hvDimmMb, hvEventDue,
                    hvAlive, faults, clientFrame >>

\* QMPClient.disconnect
ApiDisconnect ==
    /\ pc = "api"
    /\ \E closeRaised \in BOOLEAN :
         sock' = IF sock = "none" THEN sock
                 ELSE SockAfterDisconnect(closeRaised)
    /\ inbox' = IF sock = "none" THEN inbox ELSE << >>
    /\ sent' = << >>
    /\ got' = << >>
    /\ ret' = "None"
    /\ branch' = "disconnect"
    /\ UNCHANGED << pc, hvBalloon, hvBackends, hvDimms, hvDimmMb, hvEventDue,
                    hvAlive, faults, clientFrame >>

\* QMPClient.query_balloon
ApiQueryBalloon ==
    /\ pc = "api"
    /\ \E o \in Exchange(QueryBalloonCmd) :
         /\ ApplyOut(o)
         /\ got' = << o.res >>
         /\ ret' = IF QueryResult(o.res) = NoActual THEN "None" ELSE "size"
    /\ sent' = OnWire(QueryBalloonCmd)
    /\ branch' = "query_balloon"
    /\ UNCHANGED << pc, sock, clientFrame >>

\* QMPClient.set_balloon
ApiSetBalloon ==
    /\ pc = "api"
    /\ \E mb \in ApiBalloonMb :
         LET cmd == BalloonCmd(MbToBytes(mb)) IN
         /\ \E o \in Exchange(cmd) :
              /\ ApplyOut(o)
              /\ got' = << o.res >>
              /\ ret' = IF SetBalloonResult(o.res) THEN "true" ELSE "false"
         /\ sent' = OnWire(cmd)
    /\ branch' = "set_balloon"
    /\ UNCHANGED << pc, sock, clientFrame >>

\* QMPClient.hotplug_memory, object-add
ApiHotplugObjectAdd ==
    /\ pc = "api"
    /\ \E slot \in ApiSlots, mb \in ApiDimmMb :
         LET cmd == ObjectAddCmd(slot, mb) IN
         /\ \E o \in Exchange(cmd) :
              /\ ApplyOut(o)
              /\ got' = << o.res >>
              /\ IF HotplugStepFailed(o.res)
                 THEN ret' = "false" /\ pc' = "api"
                 ELSE ret' = "none" /\ pc' = "api_devadd"
         /\ sent' = OnWire(cmd)
    /\ branch' = "hotplug_memory"
    /\ UNCHANGED << sock, clientFrame >>

\* QMPClient.hotplug_memory, device_add with the slot of its object-add
ApiHotplugDeviceAdd ==
    /\ pc = "api_devadd"
    /\ LET cmd == DeviceAddCmd(sent[1].slot) IN
       /\ \E o \in Exchange(cmd) :
            /\ ApplyOut(o)
            /\ got' = Append(got, o.res)
            /\ ret' = IF HotplugStepFailed(o.res) THEN "false" ELSE "true"
       /\ sent' = sent \o OnWire(cmd)
    /\ pc' = "api"
    /\ UNCHANGED << sock, branch, clientFrame >>

ClientNext ==
    \/ ApiConnect
    \/ ApiDisconnect
    \/ ApiQueryBalloon
    \/ ApiSetBalloon
    \/ ApiHotplugObjectAdd
    \/ ApiHotplugDeviceAdd
    \/ HvEvent
    \/ VmDies

ClientSpec == ClientInit /\ [][ClientNext]_vars

\* ================================================= _recv, byte by byte
\* One call of QMPClient._recv on a connected socket.  The peer writes the
\* bytes of `script` in pieces of any size; each sock.recv(4096) returns any
\* non-empty prefix of the bytes that have arrived.  A byte is "{", "}", "a"
\* (anything inside an object) or "n" (the line end after a QMP message).
MsgReturn == << "{", "a", "{", "}", "}", "n" >>
MsgEvent == << "{", "a", "}", "n" >>
Scripts == { MsgReturn, MsgEvent, MsgReturn \o MsgEvent, MsgEvent \o MsgReturn,
             << "{", "a" >>, << >> }

\* the index of the byte that closes the object opened first, 0 if none
RECURSIVE ObjectEnd(_, _, _)
ObjectEnd(bytes, i, depth) ==
    IF i > Len(bytes) THEN 0
    ELSE IF bytes[i] = "{" THEN ObjectEnd(bytes, i + 1, depth + 1)
    ELSE IF bytes[i] = "}" THEN
        IF depth = 1 THEN i ELSE ObjectEnd(bytes, i + 1, depth - 1)
    ELSE ObjectEnd(bytes, i + 1, depth)

\* json.loads(data.decode()) succeeds: one document, then white space only
Loads(bytes) ==
    LET e == ObjectEnd(bytes, 1, 0) IN
    /\ e > 0
    /\ \A i \in (e + 1)..Len(bytes) : bytes[i] = "n"

RecvInit ==
    /\ pc = "api"
    /\ FreshState
    /\ regime = "any"
    /\ run_once = FALSE
    /\ marker = "absent"
    /\ StartIdle
    /\ script \in Scripts
    /\ wire = << >>
    /\ data = << >>
    /\ recvRet = "none"
    /\ peerOpen = TRUE

recvFrame == << regime, max_memory_mb, last_processed_seq_id, initial_balloon_mb,
                hotplug_slot_counter, total_hotplugged_mb, vm_check_counter,
                loc, histVars, hvVars, launchVars, loopVars >>

\* connect has opened the socket; _recv is called: `data = b""`
RecvCalled ==
    /\ pc = "api"
    /\ sock' = "open"
    /\ pc' = "recv"
    /\ UNCHANGED << recvFrame, recvVars >>

\* the peer writes some of its bytes
PeerWrites ==
    /\ peerOpen /\ script # << >>
    /\ \E k \in 1..Len(script) :
         /\ wire' = wire \o SubSeq(script, 1, k)
         /\ script' = SubSeq(script, k + 1, Len(script))
    /\ UNCHANGED << pc, sock, recvFrame, data, recvRet, peerOpen >>

\* the peer closes the connection
PeerCloses ==
    /\ peerOpen
    /\ peerOpen' = FALSE
    /\ UNCHANGED << pc, sock, recvFrame, script, wire, data, recvRet >>

\* chunk = self.sock.recv(4096) returns bytes; data += chunk; json.loads
RecvChunk ==
    /\ pc = "recv" /\ wire # << >>
    /\ \E k \in 1..Len(wire) :
         /\ data' = data \o SubSeq(wire, 1, k)
         /\ wire' = SubSeq(wire, k + 1, Len(wire))
    /\ IF Loads(data')
       THEN recvRet' = "message" /\ pc' = "api"
       ELSE UNCHANGED << recvRet, pc >>
    /\ UNCHANGED << sock, recvFrame, script, peerOpen >>

\* chunk = self.sock.recv(4096) returns b"": break, return {}
RecvEof ==
    /\ pc = "recv" /\ wire = << >> /\ ~peerOpen
    /\ recvRet' = "empty"
    /\ pc' = "api"
    /\ UNCHANGED << sock, recvFrame, script, wire, data, peerOpen >>

\* nothing arrives for 5 s: sock.recv raises socket.timeout
RecvTimeout ==
    /\ pc = "recv" /\ wire = << >> /\ peerOpen
    /\ recvRet' = "timeout"
    /\ pc' = "api"
    /\ UNCHANGED << sock, recvFrame, script, wire, data, peerOpen >>

RecvNext ==
    \/ RecvCalled
    \/ PeerWrites
    \/ PeerCloses
    \/ RecvChunk
    \/ RecvEof
    \/ RecvTimeout

RecvSpec == RecvInit /\ [][RecvNext]_vars

\* ============================================================ the launch
\* Start requests for one VM name, issued by different processes: "run" is
\* start_balloon_controller (called by the run command), "cmd" is the
\* balloon command of __main__.  Both call is_balloon_running, fork, and
\* write the PID marker in the parent.  The forked controller processes are
\* followed from outside: connecting, polling, leaving _run_loop, exiting.
Starters == 1..MaxStarters
\* the marker content str(pid) of the process forked by request s
PidOf(s) == << "pid1", "pid2", "pid3", "pid4" >>[s]
\* the marker before the first request: none, an unparsable one, or the pid
\* of a controller that has ended
OldMarkers == {"absent", "garbage", "pid0"}
\* the controller process with that pid exists
Alive(p) ==
    \E s \in Starters :
        PidOf(s) = p /\ child[s] \in {"forked", "connecting", "polling", "unwind"}
\* os.kill(pid, 0) by request s is permitted: same user, or root
MaySignal(s, p) ==
    owner[s] = "root" \/ \A t \in Starters : PidOf(t) = p => owner[t] = owner[s]
\* QEMU serves one QMP client at a time (-qmp unix:...,server,nowait)
MonitorFree == \A s \in Starters : child[s] # "polling"

StartInit ==
    /\ ControllerInit
    /\ regime = "any"
    /\ run_once = FALSE
    /\ RecvIdle
    /\ marker \in OldMarkers
    /\ starter = [s \in Starters |-> "check"]
    /\ child = [s \in Starters |-> "none"]
    /\ owner \in [Starters -> {"user", "root"}]
    /\ kind \in [Starters -> {"run", "cmd"}]
    /\ seen = [s \in Starters |-> "none"]

\* is_balloon_running: `if not pid_file.exists(): return False, None`
CheckExists(s) ==
    /\ starter[s] = "check"
    /\ starter' = [starter EXCEPT ![s] = IF marker = "absent" THEN "fork"
                                         ELSE "read"]
    /\ UNCHANGED << mainVars, marker, child, owner, kind, seen >>

\* is_balloon_running: int(pid_file.read_text().strip()); ValueError leads to
\* the unlink, a file that has gone meanwhile raises FileNotFoundError, which
\* is not caught
ReadMarker(s) ==
    /\ starter[s] = "read"
    /\ seen' = [seen EXCEPT ![s] = marker]
    /\ starter' = [starter EXCEPT ![s] =
                     IF marker = "absent" THEN "crashed"
                     ELSE IF marker = "garbage" THEN "unlink"
                     ELSE "probe"]
    /\ UNCHANGED << mainVars, marker, child, owner, kind >>

\* is_balloon_running: os.kill(pid, 0) returns, so (True, pid) is returned;
\* ProcessLookupError and PermissionError lead to the unlink
ProbeSaysRunning(s) == Alive(seen[s]) /\ MaySignal(s, seen[s])

ProbePid(s) ==
    /\ starter[s] = "probe"
    /\ starter' = [starter EXCEPT ![s] = IF ProbeSaysRunning(s) THEN "found"
                                         ELSE "unlink"]
    /\ UNCHANGED << mainVars, marker, child, owner, kind, seen >>

\* is_balloon_running: pid_file.unlink(), then `return False, None`
UnlinkMarker(s) ==
    /\ starter[s] = "unlink"
    /\ marker' = "absent"
    /\ starter' = [starter EXCEPT ![s] = "fork"]
    /\ UNCHANGED << mainVars, child, owner, kind, seen >>

\* os.fork()
Fork(s) ==
    /\ starter[s] = "fork"
    /\ child' = [child EXCEPT ![s] = "forked"]
    /\ starter' = [starter EXCEPT ![s] = "write"]
    /\ UNCHANGED << mainVars, marker, owner, kind, seen >>

\* the parent: pid_file.write_text(str(pid))
WriteMarker(s) ==
    /\ starter[s] = "write"
    /\ marker' = PidOf(s)
    /\ starter' = [starter EXCEPT ![s] = "returned"]
    /\ UNCHANGED << mainVars, child, owner, kind, seen >>

\* the child constructs the controller and calls _run_loop; the balloon
\* command passes qmp_host and qmp_port, which __init__ does not take: the
\* TypeError ends that child outside every try block
ChildStarts(s) ==
    /\ child[s] = "forked"
    /\ child' = [child EXCEPT ![s] = IF kind[s] = "run" THEN "connecting"
                                     ELSE "crashed"]
    /\ UNCHANGED << mainVars, marker, starter, owner, kind, seen >>

\* _run_loop: connect succeeds or fails; on failure _run_loop returns
ChildConnects(s) ==
    /\ child[s] = "connecting"
    /\ \E ok \in BOOLEAN :
         /\ ok => MonitorFree
         /\ child' = [child EXCEPT ![s] = IF ok THEN "polling" ELSE "unwind"]
    /\ UNCHANGED << mainVars, marker, starter, owner, kind, seen >>

\* _run_loop: the loop ends and the finally block unlinks the marker
ChildLeavesLoop(s) ==
    /\ child[s] = "polling"
    /\ marker' = "absent"
    /\ child' = [child EXCEPT ![s] = "unwind"]
    /\ UNCHANGED << mainVars, starter, owner, kind, seen >>

\* start_balloon_controller: the finally block after _run_loop unlinks the
\* marker, then os._exit(0)
ChildExits(s) ==
    /\ child[s] = "unwind"
    /\ marker' = "absent"
    /\ child' = [child EXCEPT ![s] = "exited"]
    /\ UNCHANGED << mainVars, starter, owner, kind, seen >>

\* SIGTERM ends the controller process where it is
ChildTerminated(s) ==
    /\ child[s] \in {"forked", "connecting", "polling", "unwind"}
    /\ child' = [child EXCEPT ![s] = "killed"]
    /\ UNCHANGED << mainVars, marker, starter, owner, kind, seen >>

StartNext ==
    \E s \in Starters :
        \/ CheckExists(s)
        \/ ReadMarker(s)
        \/ ProbePid(s)
        \/ UnlinkMarker(s)
        \/ Fork(s)
        \/ WriteMarker(s)
        \/ ChildStarts(s)
        \/ ChildConnects(s)
        \/ ChildLeavesLoop(s)
        \/ ChildExits(s)
        \/ ChildTerminated(s)

StartSpec == StartInit /\ [][StartNext]_vars

\* ================================================================== claims
\* the history variables describe a completed call of adjust_memory
Returned == ret # "none"
FloorCaptured == initial_balloon_mb # NoneMb
\* the call read a telemetry record
ReadRecord == branch \notin {"none", "nostatus", "raised"}
CapacityUnchanged ==
    /\ initial_balloon_mb = pre.floor
    /\ total_hotplugged_mb = pre.hot
    /\ hotplug_slot_counter = pre.slots
    /\ last_processed_seq_id = pre.last
HotplugCmds == {"object-add", "device_add"}
SentKinds == { sent[i].execute : i \in 1..Len(sent) }

\* C1: once the floor is captured, floor_mb + total_hotplugged_mb <= ceiling_mb
\* in every reachable state, for every configured ceiling and initial balloon.
C1_CeilingInvariant ==
    FloorCaptured =>
        initial_balloon_mb + total_hotplugged_mb <= max_memory_mb

\* C2: once the floor is captured, the balloon size of the hypervisor lies in
\* [floor_mb, floor_mb + total_hotplugged_mb], and every balloon-resize
\* command has a target >= floor_mb and below the size just queried.
C2_BalloonWithinRange ==
    FloorCaptured =>
        /\ initial_balloon_mb <= BytesToMb(hvBalloon)
        /\ BytesToMb(hvBalloon) <= initial_balloon_mb + total_hotplugged_mb
        /\ \A i \in 1..Len(sent) :
              sent[i].execute = "balloon" =>
                  /\ BytesToMb(sent[i].value) >= initial_balloon_mb
                  /\ BytesToMb(sent[i].value) < loc.current_mb

\* a call of adjust_memory that reads a record with the seq_id of the record
\* the call before it read
SecondCallSameSeq ==
    /\ pc = "adjust" /\ pc' # "adjust"
    /\ Returned /\ ReadRecord
    /\ branch' \notin {"none", "nostatus", "raised"}
    /\ loc'.seq = loc.seq
NothingSentNothingChanged ==
    /\ sent' = << >> /\ got' = << >>
    /\ UNCHANGED << initial_balloon_mb, total_hotplugged_mb,
                    hotplug_slot_counter, last_processed_seq_id >>

\* C3 (as stated): the second of two consecutive calls that read records with
\* the same seq_id sends no command and changes no capacity state, whatever
\* the first call did.
C3_SameSeqTwice ==
    [][SecondCallSameSeq => NothingSentNothingChanged]_vars

\* C3 (amended): the second of two consecutive calls that read records with
\* the same seq_id sends no command and changes no capacity state, provided
\* the first call did not return early on total_mb == 0 or a failed query.
C3_SkipAfterProcessed ==
    [][(SecondCallSameSeq /\ branch \notin {"zero", "queryfail"})
          => (NothingSentNothingChanged /\ ret' = "true")]_vars

\* a record whose seq_id is the last processed one is skipped, on a machine
\* that has hotplugged memory before
C3_Witness ==
    /\ pc = "loop" /\ branch = "skip" /\ Returned
    /\ loc.seq = last_processed_seq_id
    /\ sent = << >>
    /\ total_hotplugged_mb > 0

\* C4: hotplug_slot_counter never exceeds max_slots, also between the
\* optimistic increment and the hotplug response, and no hotplug command is
\* sent once 16 slots are in use.
C4_SlotsBounded ==
    /\ hotplug_slot_counter <= max_slots
    /\ \A i \in 1..Len(sent) :
          sent[i].execute \in HotplugCmds =>
              (pre.slots < max_slots /\ sent[i].slot <= max_slots)

C4_Witness ==
    /\ pc = "hp_objadd"
    /\ hotplug_slot_counter = max_slots

\* C5: when the hotplug attempt of a call fails, total_hotplugged_mb and
\* hotplug_slot_counter are after the call what they were before it.
C5_FailedHotplugReverts ==
    (Returned /\ branch = "low_hotplug_failed") =>
        /\ ret = "false"
        /\ total_hotplugged_mb = pre.hot
        /\ hotplug_slot_counter = pre.slots

C5_Witness ==
    /\ Returned /\ branch = "low_hotplug_failed"
    /\ Len(got) = 3
    /\ pre.slots > 0

\* the first answer of the call is a balloon size
QueryOk(r) == r.k = "return" /\ r.actual # NoActual
\* the call read a record that differs from the last processed one, with
\* total_mb > 0, and its balloon query gave a size
NewRecordQueried ==
    /\ ReadRecord /\ loc.seq # pre.last /\ loc.total > 0
    /\ Len(got) >= 1 /\ QueryOk(got[1])

\* C6: device_add is sent only after an object-add of the same slot whose
\* response had a `return` key, and a hotplug counts as successful (and
\* total_hotplugged_mb grows) only if both responses had a `return` key.
C6_HotplugNeedsTwoReturns ==
    /\ \A i \in 1..Len(sent) :
          sent[i].execute = "device_add" =>
              /\ i > 1 /\ sent[i - 1].execute = "object-add"
              /\ sent[i - 1].slot = sent[i].slot
              /\ got[i - 1].k = "return"
    /\ (Returned /\ total_hotplugged_mb > pre.hot) =>
          /\ Len(got) = 3
          /\ got[2].k = "return"
          /\ got[3].k = "return"

\* C7: for a new record with total_mb > 0 and a successful balloon query, a
\* free ratio within [0.30, 0.50], both ends included, sends neither a
\* balloon-resize nor a hotplug command, changes no capacity counter and
\* returns success.
C7_NeutralBandNoAction ==
    ( /\ pc \in {"loop", "adjust"} /\ NewRecordQueried
      /\ 10 * loc.avail >= 3 * loc.total
      /\ 2 * loc.avail <= loc.total ) =>
        /\ ret = "true"
        /\ SentKinds = {"query-balloon"}
        /\ total_hotplugged_mb = pre.hot
        /\ hotplug_slot_counter = pre.slots

C7_Witness ==
    /\ pc = "loop" /\ NewRecordQueried
    /\ 10 * loc.avail = 3 * loc.total
    /\ ret = "true"

\* C8: once adjust_memory has reached a branch decision for a record,
\* last_processed_seq_id is that record's seq_id, whatever the branch and the
\* outcome of its action, and a next call that reads the same seq_id sends
\* no command.
C8_DecidedMeansProcessed ==
    /\ [](NewRecordQueried => last_processed_seq_id = loc.seq)
    /\ [][(SecondCallSameSeq /\ NewRecordQueried) => sent' = << >>]_vars

C8_Witness ==
    /\ pc = "loop" /\ NewRecordQueried
    /\ branch = "high_set" /\ ret = "false"
    /\ last_processed_seq_id = loc.seq

\* C9: for a new record with total_mb == 0, or when the balloon query gives
\* no size, adjust_memory returns failure, sends neither a balloon-resize nor
\* a hotplug command and leaves last_processed_seq_id and the capacity state
\* as they were.
C9_FailFastLeavesState ==
    ( /\ Returned /\ ReadRecord /\ loc.seq # pre.last
      /\ \/ loc.total = 0
         \/ Len(got) >= 1 /\ ~QueryOk(got[1]) ) =>
        /\ ret = "false"
        /\ SentKinds \subseteq {"query-balloon"}
        /\ Len(got) <= 1
        /\ CapacityUnchanged

\* a `return` without `actual` answered the query
C9_Witness ==
    /\ Returned /\ ReadRecord /\ loc.seq # pre.last
    /\ Len(got) = 1 /\ got[1].k = "return" /\ got[1].actual = NoActual
    /\ ret = "false"

\* the next multiple of 1024 at or above max(floor(total / 2), 256)
C10_Rounded(total) ==
    LET d == IF total \div 2 >= 256 THEN total \div 2 ELSE 256
    IN  CHOOSE m \in { 1024 * k : k \in 1..32 } : m >= d /\ m - 1024 < d

C10_Size ==
    LET r == C10_Rounded(loc.total)
        room == max_memory_mb - (initial_balloon_mb + pre.hot)
    IN  IF r <= room THEN r ELSE room

\* C10: every hotplug requested in the low-memory branch has the size
\* min(R, ceiling_mb - (floor_mb + total_hotplugged_mb)), R being
\* max(floor(total_mb / 2), step_mb) rounded up to a multiple of 1024, and a
\* successful one adds exactly that size and exactly one slot.
C10_HotplugSize ==
    /\ \A i \in 1..Len(sent) :
          sent[i].execute = "object-add" =>
              /\ 10 * loc.avail < 3 * loc.total
              /\ sent[i].mb = C10_Size
              /\ sent[i].value = [mb |-> C10_Size, rem |-> 0]
    /\ (Returned /\ branch = "low_hotplug_ok") =>
          /\ total_hotplugged_mb = pre.hot + C10_Size
          /\ hotplug_slot_counter = pre.slots + 1

\* total 4096, floor 2048, ceiling 8192, nothing hotplugged: 2048 MB, slot 1
C10_Witness ==
    /\ Returned /\ branch = "low_hotplug_ok"
    /\ loc.total = 4096 /\ initial_balloon_mb = 2048
    /\ max_memory_mb = 8192 /\ pre.hot = 0
    /\ total_hotplugged_mb = 2048 /\ hotplug_slot_counter = 1

\* the call went into the low-memory branch: a new record, a balloon size
\* and a free ratio below the low threshold
LowRecordQueried == NewRecordQueried /\ 10 * loc.avail < 3 * loc.total

\* C11: in the low-memory branch, when floor_mb + total_hotplugged_mb >=
\* ceiling_mb, or all max_slots slots are in use, or the clamped increase is
\* below 256 MB, no object-add or device_add is sent and no counter changes;
\* the call returns success and the record is marked processed.
C11_LowBranchNoOps ==
    ( /\ LowRecordQueried
      /\ \/ initial_balloon_mb + pre.hot >= max_memory_mb
         \/ pre.slots >= 16
         \/ C10_Size < 256 ) =>
        /\ Returned /\ ret = "true"
        /\ SentKinds = {"query-balloon"}
        /\ total_hotplugged_mb = pre.hot
        /\ hotplug_slot_counter = pre.slots
        /\ last_processed_seq_id = loc.seq

\* 228 MB of headroom are left below the ceiling of 3300 MB
C11_Witness ==
    /\ Returned /\ LowRecordQueried
    /\ pre.slots < 16
    /\ initial_balloon_mb + pre.hot < max_memory_mb
    /\ C10_Size < 256
    /\ ret = "true"

\* the call went into the high-memory branch
HighRecordQueried == NewRecordQueried /\ 2 * loc.avail > loc.total

\* current_mb - max(floor(0.30 * current_mb), 256), not below the floor
C12_Target ==
    LET c == loc.current_mb
        d == IF (3 * c) \div 10 >= 256 THEN (3 * c) \div 10 ELSE 256
    IN  IF c - d >= initial_balloon_mb THEN c - d ELSE initial_balloon_mb

\* C12: in the high-memory branch set_balloon is called if and only if
\* current_mb > floor_mb, with the target max(current_mb - max(floor(0.30 *
\* current_mb), step_mb), floor_mb) in bytes (3000 over a floor of 2048 gives
\* 2100 MB); with current_mb <= floor_mb no command but the query is sent.
C12_ReclaimTarget ==
    /\ NewSizeMb(3000, 2048) = 2100
    /\ (Returned /\ HighRecordQueried) =>
          /\ (loc.current_mb > initial_balloon_mb) <=> (branch = "high_set")
          /\ branch = "high_set" =>
                /\ Len(got) = 2
                /\ got[2] # Raised => Len(sent) = 2
                /\ Len(sent) = 2 => sent[2] = BalloonCmd([mb |-> C12_Target,
                                                          rem |-> 0])
          /\ branch # "high_set" => SentKinds = {"query-balloon"}
          /\ SentKinds \cap HotplugCmds = {}

\* 3072 MB after a hotplug of 1024 MB over the floor of 2048 MB: 2151 MB
C12_Witness ==
    /\ Returned /\ HighRecordQueried /\ branch = "high_set"
    /\ loc.current_mb = 3072 /\ initial_balloon_mb = 2048
    /\ Len(sent) = 2 /\ sent[2].value = [mb |-> 2151, rem |-> 0]
    /\ ret = "true"

\* C13: a record is skipped exactly when its seq_id equals
\* last_processed_seq_id; a record with a different seq_id, a smaller one
\* included, is processed as new.
C13_EqualityOnly ==
    (Returned /\ ReadRecord) =>
        /\ (branch = "skip") <=> (loc.seq = pre.last)
        /\ (loc.seq # pre.last /\ loc.total > 0) => Len(got) >= 1
        /\ (loc.seq # pre.last /\ NewRecordQueried) =>
              last_processed_seq_id = loc.seq

\* the guest has rebooted: seq_id 0 after seq_id 1
C13_Witness ==
    /\ Returned /\ NewRecordQueried
    /\ loc.seq < pre.last
    /\ last_processed_seq_id = loc.seq
    /\ branch = "low_hotplug_ok"

\* ------------------------------------------------------- claims on the loop
\* connect has opened the transport, consumed one greeting, sent
\* qmp_capabilities and read a response with `return`
HandshakeDone ==
    hs = [opened |-> TRUE, greeting |-> "greeting", capsSent |-> TRUE,
          capsResp |-> "return"]
\* _run_loop is past a successful connect and has not finished
Connected == pc \in {"init_query", "cleanup"} \cup InTry
Ended == pc \in {"done", "exited", "killed"}

\* C14: no query-balloon, balloon, object-add or device_add command is sent
\* and the loop is not entered unless the handshake was completed; when a
\* step of the handshake fails the controller ends without having polled and
\* connect is not tried again.
C14_PollingNeedsHandshake ==
    /\ []((polled \/ Connected \/ iterations > 0) => HandshakeDone)
    /\ [](ended = "connect_failed" =>
             (Ended /\ ~polled /\ iterations = 0 /\ ~HandshakeDone))
    /\ [][pc # "start" => pc' \notin BeforeTry \ {pc, "greeting",
                                                   "capabilities",
                                                   "init_query"}]_vars
    /\ [][ended = "connect_failed" => Ended']_vars

C14_Witness ==
    /\ pc = "loop" /\ polled /\ HandshakeDone
    /\ iterations > 0 /\ Returned

\* a step of LoopCheck
LoopCheckStep ==
    /\ pc = "loop"
    /\ pc' = "adjust" \/ (pc' = "cleanup" /\ ended' = "vm_stopped")
\* the step probed the VM
Probed == vm_check_counter' = 0

\* the probe is made in the 3rd, 6th, ... iteration and in no other; when it
\* finds the VM gone the loop is left in that iteration, before the decision
\* step; the loop is not left by LoopCheck otherwise
ProbeSteps ==
    (LoopCheckStep /\ iterations' < MaxIter) =>
        /\ Probed <=> (iterations' % 3 = 0)
        /\ (Probed /\ ~hvAlive) => pc' = "cleanup"
        /\ pc' = "cleanup" => (Probed /\ ~hvAlive)

\* C15 (as stated): the liveness probe is made on exactly every third
\* iteration and ends the loop before the decision step when the VM is not
\* running; at most 2 calls of the decision step begin after the VM process
\* has ended.
C15_TwoStepsAfterDeath ==
    /\ [][ProbeSteps]_vars
    /\ [](sinceDeath <= 2)

\* C15 (amended): the liveness probe is made on exactly every third
\* iteration and ends the loop before the decision step when the VM is not
\* running; at most 3 calls of the decision step begin after the VM process
\* has ended (3 when it ends between the probe of an iteration and the
\* decision step of the same iteration).
C15_ThreeStepsAfterDeath ==
    /\ [][ProbeSteps]_vars
    /\ [](sinceDeath <= VmCheckEvery)

\* the VM ended right after the probe of the 3rd iteration; the 3rd, 4th and
\* 5th iteration called the decision step, the probe of the 6th left the loop
C15_Witness ==
    /\ pc = "cleanup" /\ ended = "vm_stopped"
    /\ iterations = 6 /\ sinceDeath = 3

\* C16: after a successful connect, however _run_loop ends, the client has
\* been disconnected and the PID marker does not exist when it has finished.
C16_CleanupOnEveryExit ==
    [][(Connected /\ pc' = "done") =>
          (sock' = "none" /\ marker' = "absent")]_vars

\* C17: a controller that gets a termination signal while it polls does not
\* end before the client has been disconnected and the PID marker removed.
C17_TerminationCleansUp ==
    ended = "killed_polling" => (sock = "none" /\ marker = "absent")

\* ----------------------------------------------------- claims on the launch
\* the controller processes that are in _run_loop, connecting or polling
InRunLoop == { s \in Starters : child[s] \in {"connecting", "polling"} }

ProbeStep(s) == starter[s] = "probe" /\ starter'[s] # "probe"
\* request s is unlinking the marker in is_balloon_running
UnlinkStep(s) == starter[s] = "unlink" /\ starter'[s] # "unlink"

\* C19: is_balloon_running returns (True, pid) exactly when the marker holds
\* the pid of a live process; for an unparsable value or the pid of a dead
\* process it deletes the marker and returns (False, None); it never deletes
\* the marker of a controller process that is alive.
C19_MarkerProbe ==
    [][\A s \in Starters :
          /\ ProbeStep(s) => ((starter'[s] = "found") <=> Alive(seen[s]))
          /\ (starter[s] = "read" /\ marker = "garbage") =>
                starter'[s] \in {"read", "unlink"}
          /\ UnlinkStep(s) => (marker' = "absent" /\ ~Alive(marker))]_vars

\* no other start request has begun
Alone(s) == \A t \in Starters \ {s} : starter[t] = "check"

\* C20: for a background start, once the parent has written the marker it
\* holds the controller's pid while that process runs, and the marker is
\* absent once the controller process has ended, for every interleaving of
\* the parent and the child.
C20_MarkerFollowsProcess ==
    \A s \in Starters :
        (Alone(s) /\ starter[s] = "returned") =>
            /\ Alive(PidOf(s)) => marker = PidOf(s)
            /\ child[s] \in {"exited", "crashed", "killed"} =>
                  marker = "absent"

\* ------------------------------------------------- claims on the QMP client
\* C21: after disconnect the client holds no socket, a second disconnect
\* changes nothing, and query_balloon, set_balloon and hotplug_memory on a
\* client without socket return None, false and false, raise nothing and
\* send nothing.
C21_DisconnectIdempotent ==
    /\ [](branch = "disconnect" => (sock = "none" /\ ret = "None"))
    /\ [][(branch = "disconnect" /\ branch' = "disconnect") =>
             UNCHANGED << sock, inbox, sent, got, ret >>]_vars
    /\ [](ret # "raise")
    /\ []((sock = "none" /\ branch = "query_balloon") =>
             (ret = "None" /\ sent = << >>))
    /\ []((sock = "none" /\ branch = "set_balloon") =>
             (ret = "false" /\ sent = << >>))
    /\ []((sock = "none" /\ branch = "hotplug_memory") =>
             (ret = "false" /\ sent = << >> /\ pc = "api"))
    /\ [][sock = "none" =>
             UNCHANGED << hvBalloon, hvBackends, hvDimms, hvDimmMb >>]_vars

\* a client that was connected (it attached a DIMM) and disconnected is asked
\* to resize the balloon
C21_Witness ==
    /\ sock = "none" /\ hvDimms # {} /\ hvAlive
    /\ branch = "set_balloon" /\ ret = "false" /\ sent = << >>

\* ------------------------------------------------ claims on failure handling
\* a decision step ends, by return or by an exception of its own
DecisionStepEnds ==
    /\ pc \in InTry \ {"loop"}
    /\ pc' \notin InTry \ {"loop"}
    /\ pc' # "killed" /\ ended' # "interrupt"

\* C22: whatever the telemetry file holds and whatever the hypervisor
\* answers, the decision step returns without raising and the loop goes on
\* to its next iteration.
C22_FailuresSwallowed ==
    [][DecisionStepEnds =>
          /\ ret' \in {"true", "false"}
          /\ pc' = IF run_once THEN "cleanup" ELSE "loop"]_vars

\* a command of the decision step is sent and a message is read for it
AnswerRead ==
    /\ \/ pc = "adjust" /\ Len(got') = 1
       \/ pc \in {"hp_objadd", "hp_devadd", "balloon_set"}
            /\ Len(got') = Len(got) + 1
    /\ got'[Len(got')] \notin {Raised, EmptyObj}

\* C23: the message read as the answer to a command is the hypervisor's
\* response to that command: nothing the hypervisor sent earlier (a late
\* response, an event message) is still unread when the command is sent.
C23_AnswersBelongToCommand ==
    [][AnswerRead => inbox = << >>]_vars

\* ------------------------------------------------- claims on the bookkeeping
\* C24: while the VM runs, between two decision steps total_hotplugged_mb is
\* the total size of the DIMMs the hypervisor has attached, and the initial
\* allocation plus these DIMMs does not exceed the ceiling (for a ceiling
\* that is not below the initial allocation, see C1).
C24_GrantedWithinCeiling ==
    (pc = "loop" /\ FloorCaptured /\ hvAlive) =>
        /\ total_hotplugged_mb = hvDimmMb
        /\ initial_balloon_mb <= max_memory_mb =>
              initial_balloon_mb + hvDimmMb <= max_memory_mb

\* C25: once set, floor_mb does not change while the controller lives; it is
\* set by the query after connect when that gives a size other than 0, else
\* by the first decision step whose query gives a size, to that size in MB.
C25_FloorSetOnce ==
    /\ [][(FloorCaptured /\ pc' \notin {"killed", "exited"}) =>
             initial_balloon_mb' = initial_balloon_mb]_vars
    /\ [][(~FloorCaptured /\ FloorCaptured') =>
             \/ /\ pc = "init_query"
                /\ Truthy(hvBalloon)
                /\ initial_balloon_mb' = BytesToMb(hvBalloon)
             \/ /\ pc = "adjust"
                /\ QueryOk(got'[1])
                /\ initial_balloon_mb' = BytesToMb(got'[1].actual)]_vars
    /\ [](NewRecordQueried => FloorCaptured)

\* a decision step has hotplugged memory: the balloon size has grown, the
\* floor captured before is still the floor
C25_Witness ==
    /\ pc = "loop" /\ branch = "low_hotplug_ok"
    /\ pre.floor # NoneMb
    /\ initial_balloon_mb = pre.floor
    /\ initial_balloon_mb # BytesToMb(hvBalloon)

\* the requests of the decision step that change the machine
Mutating(kinds) == { i \in 1..Len(sent) : sent[i].execute \in kinds }

\* C26: a decision step sends at most one balloon resize or one object-add /
\* device_add pair, never both; a record with a free ratio below 0.30 sends
\* no balloon command, one with a free ratio above 0.50 sends no hotplug
\* command and changes neither total_hotplugged_mb nor the slot counter.
C26_OneMutationPerStep ==
    /\ Cardinality(Mutating({"balloon"})) <= 1
    /\ Cardinality(Mutating({"object-add"})) <= 1
    /\ Cardinality(Mutating({"device_add"})) <= 1
    /\ Mutating({"balloon"}) = {} \/ Mutating(HotplugCmds) = {}
    /\ (ReadRecord /\ 10 * loc.avail < 3 * loc.total) =>
          Mutating({"balloon"}) = {}
    /\ (ReadRecord /\ 2 * loc.avail > loc.total) =>
          /\ Mutating(HotplugCmds) = {}
          /\ pc \in {"loop", "cleanup", "balloon_set"} =>
                /\ total_hotplugged_mb = pre.hot
                /\ hotplug_slot_counter = pre.slots

\* a record with a free ratio above 0.50 on a machine with hotplugged memory:
\* one balloon resize, the hotplug counters are left
C26_Witness ==
    /\ pc = "loop" /\ Returned /\ ReadRecord
    /\ 2 * loc.avail > loc.total
    /\ Len(sent) = 2 /\ sent[2].execute = "balloon"
    /\ total_hotplugged_mb > 0 /\ total_hotplugged_mb = pre.hot
    /\ hotplug_slot_counter = pre.slots

\* --------------------------------------------------------- claims on _recv
\* the bytes read so far hold a complete message
FirstMessageRead == ObjectEnd(data, 1, 0) > 0

\* C27: however the stream is cut into reads, _recv returns the first
\* message of the stream, and does so with the read that brings its last
\* byte; it returns {} only when the peer has closed and no complete message
\* has been read.
C27_FirstMessageReturned ==
    /\ recvRet = "message" =>
          /\ FirstMessageRead
          /\ \A i \in (ObjectEnd(data, 1, 0) + 1)..Len(data) : data[i] = "n"
    /\ FirstMessageRead => recvRet = "message"
    /\ recvRet = "empty" => (~peerOpen /\ ~FirstMessageRead)

\* ------------------------------------------------------- claims on the slots
\* a hotplug command goes on the wire
HotplugSent(at) == pc = at /\ Len(sent') = Len(sent) + 1

\* C28: no object-add is sent for a slot whose mem-slotN or dimm-slotN exists
\* in the hypervisor, and no device_add for a slot whose dimm-slotN exists.
C28_SlotIdsUnique ==
    [][/\ HotplugSent("hp_objadd") =>
             hotplug_slot_counter \notin BackendSlots \cup hvDimms
       /\ HotplugSent("hp_devadd") =>
             hotplug_slot_counter \notin hvDimms]_vars

\* C29: the first decision step of a controller that reads a record
\* evaluates it, whatever its seq_id: the record is not skipped as already
\* processed.
C29_FirstRecordEvaluated ==
    (iterations = 1 /\ Returned /\ ReadRecord) => branch # "skip"

\* -------------------------------------------------------- claims on progress
BalloonAtFloor == FloorCaptured /\ BytesToMb(hvBalloon) = initial_balloon_mb

\* C30: while the VM runs and the controller polls, if from some moment on
\* every record is new and high, the balloon size in MB eventually is
\* floor_mb and stays there, and no balloon command is sent any more (the
\* hypervisor applies every balloon command it is sent); if from some moment
\* on every record is new and low and no hotplug fails, eventually no
\* hotplug command is sent any more.
C30_Converges ==
    /\ ([]hvAlive /\ <>[](regime = "high" /\ pc \in InTry)) =>
          <>[](BalloonAtFloor /\ pc # "balloon_set")
    /\ ([]hvAlive /\ <>[](regime = "low" /\ branch # "low_hotplug_failed"))
          => <>[](pc \notin {"hp_objadd", "hp_devadd"})

\* memory was hotplugged, then the high records have brought the balloon
\* back to the floor
C30_Witness ==
    /\ regime = "high" /\ hvAlive /\ pc = "loop"
    /\ branch = "high_floor"
    /\ total_hotplugged_mb > 0
    /\ BalloonAtFloor

====
